---- MODULE Spec2Model ----
(***************************************************************************)
(* A model of django-htmx-cbv: the four middleware classes of              *)
(* django_htmx_cbv/middleware.py and the form / model views of             *)
(* django_htmx_cbv/views.py.                                               *)
(*                                                                         *)
(* The package has no state of its own that outlives a request except the  *)
(* host framework's message storage, the database rows the views change,   *)
(* and the model's field objects (which ModelFormView.form_valid patches). *)
(* Each part is modelled by its own specification over its own variables;  *)
(* the variables of the other parts stay parked at their initial values.   *)
(*                                                                         *)
(*   SpecVerb  HttpVerbViewMiddleware.process_view                         *)
(*   SpecTpl   HtmxPartialTemplateMiddleware.process_template_response     *)
(*   SpecMsg   the chain HtmxVaryMiddleware, HtmxPartialTemplateMiddleware *)
(*             and HtmxMessageMiddleware around a view, over a sequence of *)
(*             requests that share the message storage                     *)
(*   SpecM2M   ModelFormView.form_valid saving many-to-many data, over a   *)
(*             sequence of requests that share the model's field objects   *)
(*   SpecDel   ModelFormView.delete on a row and its relations             *)
(*   SpecView  a request through a view that derives from HyperFormView,   *)
(*             HtmxChainedFormView or ModelFormView: setup, dispatch, the  *)
(*             verb's handler, the form, form_valid                        *)
(*   SpecHtmx  HtmxFormMixin.form_valid and form_invalid in front of the   *)
(*             form mixins, and the partial the middleware then picks      *)
(***************************************************************************)
EXTENDS Integers, Sequences, FiniteSets, TLC

VARIABLES
  vpc,        \* SpecVerb: "idle" | "received" | "view"
  request,    \* SpecVerb: the request as the WSGI handler built it
  method,     \* SpecVerb: request.method (process_view may overwrite it)
  QUERY,      \* SpecVerb: request.QUERY, or Unset while the attribute is missing
  BODY,       \* SpecVerb: request.BODY,  or Unset while the attribute is missing
  tpc,        \* SpecTpl: "idle" | "view" | "processed"
  trequest,   \* SpecTpl: the request: [htmx, target]
  tview,      \* SpecTpl: the TemplateResponse as the view returned it
  tresponse,  \* SpecTpl: the TemplateResponse, which the middleware changes
  chain,      \* SpecMsg: settings.MIDDLEWARE, the innermost class first
  mpos,       \* SpecMsg: 0 idle, i: chain[i] runs next, Len(chain)+1.. : after
  mran,       \* SpecMsg: the class whose __call__ returned last
  mrequest,   \* SpecMsg: the request: [htmx, follows]
  minner,     \* SpecMsg: what self.get_response(request) returned to mran
  mresponse,  \* SpecMsg: the response on its way out
  storage,    \* SpecMsg: the messages stored between requests
  pending,    \* SpecMsg: this request's messages (loaded and queued)
  used,       \* SpecMsg: this request's storage has been iterated
  queued,     \* SpecMsg: how many messages views have queued so far
  shown,      \* SpecMsg: for each message, how often a client displayed it
  dropped,    \* SpecMsg: the messages rendered into a body no client displays
  follow,     \* SpecMsg: the redirect the client is about to follow
  fpc,        \* SpecM2M: "idle" | "valid" | "saved"
  frequest,   \* SpecM2M: the request: [method, object, data]
  same_model, \* SpecM2M: the many-to-many fields relate to the same model
  save_form_data, \* SpecM2M: each field object's save_form_data
  related,    \* SpecM2M: the rows: each object's relations by field
  fraised,    \* SpecM2M: the exception form_valid raised, or NoValue
  dpc,        \* SpecDel: "idle" | "delete" | "done"
  drequest,   \* SpecDel: the request: [htmx, QUERY]
  dmethod,    \* SpecDel: request.method
  pk_type,    \* SpecDel: the Python type of the related rows' primary keys
  success_message, \* SpecDel: the view class sets a success_message
  row,        \* SpecDel: self.object's row: [exists, tags, author, profile]
  draised,    \* SpecDel: the exception delete raised, or NoValue
  dqueued,    \* SpecDel: delete queued its message
  dresponse,  \* SpecDel: the response delete returned, or NoValue
  wpc,        \* SpecView: "idle" | "setup" | "dispatch" | "done"
  wview,      \* SpecView: the project's view class
  wrequest,   \* SpecView: the request
  wcalls,     \* SpecView: the methods of the package and of the framework's
              \*           form mixins that ran, in the order they were entered
  wraised,    \* SpecView: the exception the request ended with, or NoValue
  wresponse,  \* SpecView: the response the request ended with, or NoValue
  wform,      \* SpecView: where the data of the form came from ("none": the
              \*           form is unbound), or NoValue while no form was made
  hpc,        \* SpecHtmx: "idle" | "form" | "handled" | "processed"
  hrequest,   \* SpecHtmx: the request: [method, htmx, trigger, target, valid]
  hview,      \* SpecHtmx: the view: its template names and HX-Partial-Name
  hparent,    \* SpecHtmx: what super().form_valid / form_invalid returned
  hresponse,  \* SpecHtmx: the response of HtmxFormMixin, then the middleware's
  hraised     \* SpecHtmx: the exception the handler raised, or NoValue

verbVars == <<vpc, request, method, QUERY, BODY>>
tplVars == <<tpc, trequest, tview, tresponse>>

msgVars ==
  <<chain, mpos, mran, mrequest, minner, mresponse, storage, pending, used,
    queued, shown, dropped, follow>>

m2mVars == <<fpc, frequest, same_model, save_form_data, related, fraised>>

delVars ==
  <<dpc, drequest, dmethod, pk_type, success_message, row, draised, dqueued,
    dresponse>>

viewVars == <<wpc, wview, wrequest, wcalls, wraised, wresponse, wform>>

htmxVars == <<hpc, hrequest, hview, hparent, hresponse, hraised>>

vars == <<verbVars, tplVars, msgVars, m2mVars, delVars, viewVars, htmxVars>>

(***************************************************************************)
(* Python values.                                                          *)
(***************************************************************************)
\* Python's None, as a string no header, field or method ever takes.
None == "<None>"

\* bool(v) of a str-or-None value: None and '' are falsy.
Truthy(v) == v # None /\ v # ""

\* Python's `a or b`: a when it is truthy, else b.
PyOr(a, b) == IF Truthy(a) THEN a ELSE b

(***************************************************************************)
(* QueryDict: a multi-valued dictionary, here a function from the keys to  *)
(* the list of values of each (the empty list: the key is missing).        *)
(***************************************************************************)
Keys == {"_method", "foo"}

\* The values a `_method` field is sent with, and the others.
MethodVals == {"", "put", "Delete"}
FieldVals == {"bar"}

\* One key=value pair of a query string or of an urlencoded body.
Pairs ==
  {<<"_method", v>> : v \in MethodVals} \cup {<<"foo", v>> : v \in FieldVals}

\* The longest query string or body, in pairs.
MaxPairs == 2

PairSeqs == UNION {[1..n -> Pairs] : n \in 0..MaxPairs}

\* QueryDict(): no key has a value.
EmptyQueryDict == [k \in Keys |-> <<>>]

\* The values of key k in a sequence of pairs, in order.
RECURSIVE ValuesOf(_, _)
ValuesOf(pairs, k) ==
  IF pairs = <<>> THEN <<>>
  ELSE LET rest == ValuesOf(Tail(pairs), k)
       IN IF Head(pairs)[1] = k THEN <<Head(pairs)[2]>> \o rest ELSE rest

\* QueryDict(query_string): the pairs grouped by key, each list in order.
ParseQueryDict(pairs) == [k \in Keys |-> ValuesOf(pairs, k)]

\* QueryDict.get(key): the last value of the key, None when it has none.
Get(qd, k) == IF qd[k] = <<>> THEN None ELSE qd[k][Len(qd[k])]

\* bool(QueryDict): some key has a value.
QueryDictTruthy(qd) == \E k \in Keys : qd[k] # <<>>

\* str.upper() on the values `_method` takes.
Upper(s) ==
  CASE s = "put" -> "PUT"
    [] s = "Delete" -> "DELETE"
    [] OTHER -> s

(***************************************************************************)
(* The request.                                                            *)
(***************************************************************************)
Methods == {"GET", "POST", "PUT", "PATCH", "DELETE", "HEAD", "OPTIONS"}

FormUrlEncoded == "application/x-www-form-urlencoded"
ContentTypes == {FormUrlEncoded, "application/json"}

\* The attribute is not set on the request (reading it raises AttributeError):
\* a value that is no QueryDict.
Unset == [k \in {"<unset>"} |-> <<>>]

Requests ==
  [method : Methods, htmx : BOOLEAN, content_type : ContentTypes,
   query : PairSeqs, body : PairSeqs]

NoRequest ==
  [method |-> "GET", htmx |-> FALSE, content_type |-> FormUrlEncoded,
   query |-> <<>>, body |-> <<>>]

\* request.GET: the QueryDict of the URL's query string.
RequestGET(req) == ParseQueryDict(req.query)

\* request.POST: the framework parses the body only of a POST request, and
\* only a form body; its method is the one on the wire.
RequestPOST(req) ==
  IF req.method = "POST" /\ req.content_type = FormUrlEncoded
  THEN ParseQueryDict(req.body)
  ELSE EmptyQueryDict

(***************************************************************************)
(* HttpVerbViewMiddleware.process_view                                     *)
(***************************************************************************)
\* The methods whose BODY is the empty QueryDict.
BodylessMethods == {"GET", "DELETE"}

\* A slip in the verb lists: PATCH is left out of the branch that parses the body.
BodyOfNoPatch(req) ==
  IF req.method \in BodylessMethods THEN EmptyQueryDict
  ELSE IF req.method = "POST" THEN RequestPOST(req)
  ELSE IF req.method \in {"PUT"}
    THEN IF req.content_type = FormUrlEncoded
         THEN ParseQueryDict(req.body)
         ELSE Unset
  ELSE Unset

\* request.BODY after the if / elif chain; Unset when no branch assigns it.
BodyOf(req) ==
  IF req.method \in BodylessMethods THEN EmptyQueryDict
  ELSE IF req.method = "POST" THEN RequestPOST(req)
  ELSE IF req.method \in {"PUT", "PATCH"}
    THEN IF req.content_type = FormUrlEncoded
         THEN ParseQueryDict(req.body)
         ELSE Unset
  ELSE Unset

\* A slip in the operands' order: the URL query is asked first.
MethodOverrideQueryFirst(req) ==
  PyOr(Get(RequestGET(req), "_method"), Get(RequestPOST(req), "_method"))

\* request.POST.get('_method') or request.GET.get('_method')
MethodOverride(req) ==
  PyOr(Get(RequestPOST(req), "_method"), Get(RequestGET(req), "_method"))

\* request.method after process_view.
MethodOf(req) ==
  IF ~req.htmx /\ Truthy(MethodOverride(req))
  THEN Upper(MethodOverride(req))
  ELSE req.method

\* The handler hands a request to the middleware chain.
Receive ==
  /\ vpc = "idle"
  /\ \E req \in Requests :
       /\ request' = req
       /\ method' = req.method
  /\ vpc' = "received"
  /\ QUERY' = Unset
  /\ BODY' = Unset

process_view ==
  /\ vpc = "received"
  /\ QUERY' = RequestGET(request)
  /\ BODY' = BodyOf(request)
  /\ method' = MethodOf(request)
  /\ vpc' = "view"
  /\ UNCHANGED request

\* The response is sent; the next request is a new object.
VerbDone ==
  /\ vpc = "view"
  /\ vpc' = "idle"
  /\ request' = NoRequest
  /\ method' = "GET"
  /\ QUERY' = Unset
  /\ BODY' = Unset

VerbStart ==
  /\ vpc = "idle"
  /\ request = NoRequest
  /\ method = "GET"
  /\ QUERY = Unset
  /\ BODY = Unset

VerbNext ==
  \/ Receive /\ UNCHANGED <<tplVars, msgVars, m2mVars, delVars, viewVars, htmxVars>>
  \/ process_view /\ UNCHANGED <<tplVars, msgVars, m2mVars, delVars, viewVars, htmxVars>>
  \/ VerbDone /\ UNCHANGED <<tplVars, msgVars, m2mVars, delVars, viewVars, htmxVars>>

(***************************************************************************)
(* Claims about HttpVerbViewMiddleware.process_view                        *)
(***************************************************************************)
\* The verbs of the package, and those of them that carry a form.
CrudMethods == {"GET", "POST", "PUT", "PATCH", "DELETE"}
FormMethods == {"POST", "PUT", "PATCH"}

\* C1: for a GET, POST, PUT, PATCH or DELETE request (with a form-urlencoded
\* body where it carries one), after process_view request.QUERY is the
\* QueryDict of the URL query string and request.BODY is the QueryDict of the
\* body for POST, PUT and PATCH and the empty QueryDict for GET and DELETE.
C1_QueryAndBody ==
  (/\ vpc = "view"
   /\ request.method \in CrudMethods
   /\ (request.method \in FormMethods => request.content_type = FormUrlEncoded))
  => /\ QUERY = ParseQueryDict(request.query)
     /\ BODY = IF request.method \in FormMethods
               THEN ParseQueryDict(request.body)
               ELSE EmptyQueryDict

\* A PATCH with a query string and two form fields has been processed.
C1_Witness ==
  /\ vpc = "view"
  /\ request.method = "PATCH"
  /\ request.content_type = FormUrlEncoded
  /\ request.query = <<(<<"foo", "bar">>)>>
  /\ Len(request.body) = 2
  /\ BODY = ParseQueryDict(request.body)
  /\ QueryDictTruthy(BODY)
  /\ QUERY["foo"] = <<"bar">>

\* `_method` is among the keys of the QueryDict.
Present(qd, k) == qd[k] # <<>>

\* C2 as the claim states it: request.method is the upper-cased `_method`
\* value when the request is not an HTMX request and `_method` is present in
\* the POST body or, failing that, in the URL query (the POST body's value
\* first); in every other case request.method is unchanged.
C2_AsClaimed ==
  vpc = "view" =>
    LET post == RequestPOST(request)
        get == RequestGET(request)
        value == IF Present(post, "_method") THEN Get(post, "_method")
                 ELSE Get(get, "_method")
    IN IF ~request.htmx /\ (Present(post, "_method") \/ Present(get, "_method"))
       THEN method = Upper(value)
       ELSE method = request.method

\* C2, amended: request.method is the upper-cased `_method` value when the
\* request is not an HTMX request and `_method` has a non-empty value in
\* request.POST or, failing that, a non-empty value in the URL query (a
\* non-empty POST value first); in every other case, in particular for
\* every HTMX request and for an empty `_method`, it is unchanged.
C2_MethodOverride ==
  vpc = "view" =>
    LET post == Get(RequestPOST(request), "_method")
        get == Get(RequestGET(request), "_method")
    IN IF ~request.htmx /\ post \notin {None, ""} THEN method = Upper(post)
       ELSE IF ~request.htmx /\ get \notin {None, ""} THEN method = Upper(get)
       ELSE method = request.method

\* A POST whose body has an empty `_method` and whose URL has `_method=put`
\* has been processed: the method is the URL's.
C2_Witness ==
  /\ vpc = "view"
  /\ ~request.htmx
  /\ request.method = "POST"
  /\ Get(RequestPOST(request), "_method") = ""
  /\ Get(RequestGET(request), "_method") = "put"
  /\ method = "PUT"

\* C14: once process_view has run, request.QUERY and request.BODY are both
\* defined, whatever the method and the content type, and request.BODY is
\* empty whenever the method the view sees is GET or DELETE.
C14_AsClaimed ==
  vpc = "view" =>
    /\ QUERY # Unset
    /\ BODY # Unset
    /\ method \in {"GET", "DELETE"} => BODY = EmptyQueryDict

(***************************************************************************)
(* Header values, element ids and template names: strings in which '#'    *)
(* matters, here sequences of pieces, each piece '#' or a run of other     *)
(* characters.                                                             *)
(***************************************************************************)
Hash == "#"

\* A header or attribute that is not there.
NoneS == <<"<None>">>

\* bool(s) of a str-or-None value.
TruthyS(s) == s # NoneS /\ s # <<>>

\* '#' in s
HasHash(s) == \E i \in 1..Len(s) : s[i] = Hash

RECURSIVE LStripHash(_)
LStripHash(s) ==
  IF s # <<>> /\ Head(s) = Hash THEN LStripHash(Tail(s)) ELSE s

RECURSIVE RStripHash(_)
RStripHash(s) ==
  IF s # <<>> /\ s[Len(s)] = Hash THEN RStripHash(SubSeq(s, 1, Len(s) - 1)) ELSE s

\* s.strip('#'): the leading and the trailing '#' removed, inner ones kept.
StripHash(s) == RStripHash(LStripHash(s))

\* settings.DEFAULT_PARTIAL_NAME, 'main' unless the project sets it.
default_partial_name == <<"main">>

\* The HX-Retarget values a view sets (None: it sets none).
RetargetVals ==
  {NoneS, <<>>, <<Hash>>, <<"text">>, <<Hash, "text">>, <<Hash, "a", Hash, "b", Hash>>}

\* The HX-Partial-Name values a view sets.
PartialNameVals == {NoneS, <<>>, <<"aside">>}

\* The HX-Target values a client sends (request.htmx.target).
TargetVals == {NoneS, <<>>, <<"form">>}

\* The template names a view gives: plain, or already naming a block.
TemplateNames == {<<"page.html">>, <<"page.html", Hash, "text">>}

\* The longest list of template names of a response.
MaxTemplates == 2

TemplateLists == UNION {[1..n -> TemplateNames] : n \in 0..MaxTemplates}

TRequests == [htmx : BOOLEAN, target : TargetVals]

TResponses ==
  [retarget : RetargetVals, partial_name : PartialNameVals,
   template_name : TemplateLists]

NoTRequest == [htmx |-> FALSE, target |-> NoneS]
NoTResponse ==
  [retarget |-> NoneS, partial_name |-> NoneS, template_name |-> <<>>]

(***************************************************************************)
(* HtmxPartialTemplateMiddleware.process_template_response                 *)
(***************************************************************************)
\* A slip in the order of the branches: HX-Partial-Name is asked first.
PartialNamePartialFirst(req, resp) ==
  IF TruthyS(resp.partial_name) THEN resp.partial_name
  ELSE IF TruthyS(resp.retarget) THEN StripHash(resp.retarget)
  ELSE IF TruthyS(req.target) THEN req.target
  ELSE default_partial_name

\* partial_name after the if / elif / else.
PartialName(req, resp) ==
  IF TruthyS(resp.retarget) THEN StripHash(resp.retarget)
  ELSE IF TruthyS(resp.partial_name) THEN resp.partial_name
  ELSE IF TruthyS(req.target) THEN req.target
  ELSE default_partial_name

\* f'{template_name}#{partial_name}' if '#' not in template_name else template_name
WithPartial(template_name, partial_name) ==
  IF ~HasHash(template_name)
  THEN template_name \o <<Hash>> \o partial_name
  ELSE template_name

\* A view has returned a TemplateResponse for a request.
TplView ==
  /\ tpc = "idle"
  /\ \E req \in TRequests, resp \in TResponses :
       /\ trequest' = req
       /\ tview' = resp
       /\ tresponse' = resp
  /\ tpc' = "view"

process_template_response ==
  /\ tpc = "view"
  /\ tresponse' =
       IF trequest.htmx
       THEN [tresponse EXCEPT !.template_name =
              [i \in 1..Len(tresponse.template_name) |->
                WithPartial(tresponse.template_name[i],
                            PartialName(trequest, tresponse))]]
       ELSE tresponse
  /\ tpc' = "processed"
  /\ UNCHANGED <<trequest, tview>>

\* The response is rendered and sent.
TplDone ==
  /\ tpc = "processed"
  /\ tpc' = "idle"
  /\ trequest' = NoTRequest
  /\ tview' = NoTResponse
  /\ tresponse' = NoTResponse

TplStart ==
  /\ tpc = "idle"
  /\ trequest = NoTRequest
  /\ tview = NoTResponse
  /\ tresponse = NoTResponse

TplNext ==
  \/ TplView /\ UNCHANGED <<verbVars, msgVars, m2mVars, delVars, viewVars, htmxVars>>
  \/ process_template_response /\ UNCHANGED <<verbVars, msgVars, m2mVars, delVars, viewVars, htmxVars>>
  \/ TplDone /\ UNCHANGED <<verbVars, msgVars, m2mVars, delVars, viewVars, htmxVars>>

\* C3: for an HTMX request the partial name is the response's HX-Retarget with
\* '#' stripped, else its HX-Partial-Name, else the request's HX-Target, else
\* 'main' (a header counts when it has a value); '#<partial name>' is appended
\* to every template name without '#', names with '#' are unchanged; for a
\* non-HTMX request template_name is unchanged.
C3_PartialName ==
  tpc = "processed" =>
    LET given == tview.template_name
        got == tresponse.template_name
        name == IF tview.retarget \notin {NoneS, <<>>} THEN StripHash(tview.retarget)
                ELSE IF tview.partial_name \notin {NoneS, <<>>} THEN tview.partial_name
                ELSE IF trequest.target \notin {NoneS, <<>>} THEN trequest.target
                ELSE <<"main">>
    IN /\ Len(got) = Len(given)
       /\ \A i \in 1..Len(given) :
            IF trequest.htmx /\ ~HasHash(given[i])
            THEN got[i] = given[i] \o <<"#">> \o name
            ELSE got[i] = given[i]

\* An HTMX request with an HX-Target whose response carries both HX-Retarget
\* '#text' and HX-Partial-Name: the plain template name got '#text', the
\* one naming a block is as it was.
C3_Witness ==
  /\ tpc = "processed"
  /\ trequest.htmx
  /\ trequest.target = <<"form">>
  /\ tview.retarget = <<"#", "text">>
  /\ tview.partial_name = <<"aside">>
  /\ tview.template_name = <<(<<"page.html">>), (<<"page.html", "#", "text">>)>>
  /\ tresponse.template_name =
       <<(<<"page.html", "#", "text">>), (<<"page.html", "#", "text">>)>>


(***************************************************************************)
(* The middleware chain around a view, and the message storage.            *)
(***************************************************************************)
\* The most messages the views queue in a run.
MaxMessages == 2

Messages == 1..MaxMessages

Urls == {"/page/", "/other/"}

\* No URL, no header value.
NoValue == "<None>"

Redirects == {301, 302}

\* The responses a view returns: a rendered template, a plain body, an empty
\* 204, a redirect, and django_htmx's client-side redirect.
Kinds == {"page", "plain", "empty", "redirect", "client_redirect"}

\* HttpResponse(...): a status, the headers the chain reads or writes, the
\* redirect's url, and the messages rendered in the body, in order.
Response(status, url, hx_redirect, vary, body) ==
  [status |-> status, url |-> url, hx_redirect |-> hx_redirect,
   vary |-> vary, body |-> body]

NoResponse == Response(200, NoValue, NoValue, NoValue, <<>>)

\* HttpResponseClientRedirect(url): status 200 and an HX-Redirect header.
HttpResponseClientRedirect(url) == Response(200, NoValue, url, NoValue, <<>>)

\* 'HX-Redirect' in response.headers
HasHxRedirect(resp) == resp.hx_redirect # NoValue

\* 300 <= response.status_code < 400
IsRedirect(resp) == 300 <= resp.status /\ resp.status < 400

\* The two orders of settings.MIDDLEWARE the package's classes are listed in,
\* the innermost first.
Chains ==
  {<<"HtmxMessageMiddleware", "HtmxPartialTemplateMiddleware", "HtmxVaryMiddleware">>,
   <<"HtmxPartialTemplateMiddleware", "HtmxMessageMiddleware", "HtmxVaryMiddleware">>}

\* render_to_string(messages_template, {'messages': messages}): the template
\* iterates the storage, so the html holds every message of the request.
RenderMessages(msgs) == msgs

\* What a view returns. A full page (no HTMX) shows the messages itself; a
\* partial does not: the messages element lies outside the partials' blocks.
ViewResponse(kind, htmx, msgs, url, vary) ==
  CASE kind = "page" -> Response(200, NoValue, NoValue, vary,
                                 IF htmx THEN <<>> ELSE RenderMessages(msgs))
    [] kind = "plain" -> Response(200, NoValue, NoValue, vary, <<>>)
    [] kind = "empty" -> Response(204, NoValue, NoValue, vary, <<>>)
    [] kind = "redirect" -> Response(302, url, NoValue, vary, <<>>)
    [] OTHER -> HttpResponseClientRedirect(url)

\* The view runs: it may queue a message, and returns its response. A client
\* that follows a redirect asks for the page it was sent to, with the HTMX
\* headers of the request it follows (none after HX-Redirect).
MsgView ==
  /\ mpos = 0
  /\ \E htmx \in BOOLEAN, kind \in Kinds, add \in BOOLEAN, url \in Urls,
        status \in Redirects, vary \in {NoValue, "Cookie"} :
       /\ follow # NoValue => htmx = (follow = "htmx") /\ kind = "page"
       /\ kind = "client_redirect" => htmx
       /\ kind # "redirect" => status = 302
       /\ add => queued < MaxMessages
       /\ LET msgs == storage \o (IF add THEN <<queued + 1>> ELSE <<>>)
              resp == [ViewResponse(kind, htmx, msgs, url, vary)
                         EXCEPT !.status = IF kind = "redirect" THEN status ELSE @]
          IN /\ mrequest' = [htmx |-> htmx, follows |-> follow # NoValue]
             /\ pending' = msgs
             /\ queued' = IF add THEN queued + 1 ELSE queued
             /\ used' = (kind = "page" /\ ~htmx)
             /\ mresponse' = resp
             /\ minner' = resp
  /\ mpos' = 1
  /\ mran' = "view"
  /\ UNCHANGED <<chain, storage, shown, dropped, follow>>

\* A slip: the 302 is turned into a client-side redirect for every request.
PartialCallAlways(req, resp) ==
  IF resp.status = 302 THEN HttpResponseClientRedirect(resp.url) ELSE resp

\* HtmxPartialTemplateMiddleware.__call__, from the inner response on.
PartialCall(req, resp) ==
  IF req.htmx /\ resp.status = 302
  THEN HttpResponseClientRedirect(resp.url)
  ELSE resp

HtmxPartialTemplateMiddleware ==
  /\ mpos \in 1..Len(chain)
  /\ chain[mpos] = "HtmxPartialTemplateMiddleware"
  /\ minner' = mresponse
  /\ mresponse' = PartialCall(mrequest, mresponse)
  /\ mran' = chain[mpos]
  /\ mpos' = mpos + 1
  /\ UNCHANGED <<chain, mrequest, storage, pending, used, queued, shown,
                 dropped, follow>>

\* A slip: the header is set for every request.
VaryCallAlways(req, resp) == [resp EXCEPT !.vary = "HX-Request"]

\* HtmxVaryMiddleware.__call__, from the inner response on.
VaryCall(req, resp) ==
  IF req.htmx THEN [resp EXCEPT !.vary = "HX-Request"] ELSE resp

HtmxVaryMiddleware ==
  /\ mpos \in 1..Len(chain)
  /\ chain[mpos] = "HtmxVaryMiddleware"
  /\ minner' = mresponse
  /\ mresponse' = VaryCall(mrequest, mresponse)
  /\ mran' = chain[mpos]
  /\ mpos' = mpos + 1
  /\ UNCHANGED <<chain, mrequest, storage, pending, used, queued, shown,
                 dropped, follow>>

\* A slip: the check for a client-side redirect is left out.
MessageSkipsNoHxRedirect(req, resp) == ~req.htmx \/ IsRedirect(resp)

\* The three early returns of HtmxMessageMiddleware.__call__.
MessageSkips(req, resp) ==
  HasHxRedirect(resp) \/ ~req.htmx \/ IsRedirect(resp)

\* A slip: the 204 is written to like any other response.
MessageCallKeeps204(resp, msgs) ==
  [resp EXCEPT !.body = @ \o RenderMessages(msgs)]

\* The response with the messages' html: written into the body, or a new
\* 200 response when the status is 204.
MessageCall(resp, msgs) ==
  IF resp.status = 204
  THEN Response(200, NoValue, NoValue, NoValue, RenderMessages(msgs))
  ELSE [resp EXCEPT !.body = @ \o RenderMessages(msgs)]

HtmxMessageMiddleware ==
  /\ mpos \in 1..Len(chain)
  /\ chain[mpos] = "HtmxMessageMiddleware"
  /\ minner' = mresponse
  /\ IF ~MessageSkips(mrequest, mresponse) /\ pending # <<>>
     THEN /\ mresponse' = MessageCall(mresponse, pending)
          /\ used' = TRUE
     ELSE UNCHANGED <<mresponse, used>>
  /\ mran' = chain[mpos]
  /\ mpos' = mpos + 1
  /\ UNCHANGED <<chain, mrequest, storage, pending, queued, shown, dropped,
                 follow>>

\* django.contrib.messages' MessageMiddleware, which the package's classes
\* come after: on the way out it stores the messages that were not iterated,
\* and none once the storage was iterated.
MessageMiddleware ==
  /\ mpos = Len(chain) + 1
  /\ storage' = IF used THEN <<>> ELSE pending
  /\ mran' = "MessageMiddleware"
  /\ mpos' = mpos + 1
  /\ UNCHANGED <<chain, mrequest, minner, mresponse, pending, used, queued,
                 shown, dropped, follow>>

\* The body of the response reaches the page: not the body of a redirect,
\* which the browser follows, nor that of an HX-Redirect, which HTMX drops.
Displayed(req, resp) == ~IsRedirect(resp) /\ ~(req.htmx /\ HasHxRedirect(resp))

\* The messages of a body, as a set.
InBody(resp) == {resp.body[i] : i \in 1..Len(resp.body)}

\* How often message m is in the body.
Times(resp, m) == Cardinality({i \in 1..Len(resp.body) : resp.body[i] = m})

\* The client receives the response: it displays the body, or follows the
\* redirect (a browser follows a 3xx with the headers of the request, and
\* loads the page of an HX-Redirect anew).
Deliver ==
  /\ mpos = Len(chain) + 2
  /\ shown' = [m \in Messages |->
                IF Displayed(mrequest, mresponse)
                THEN shown[m] + Times(mresponse, m)
                ELSE shown[m]]
  /\ dropped' = IF Displayed(mrequest, mresponse) THEN dropped
                ELSE dropped \cup InBody(mresponse)
  /\ follow' = IF IsRedirect(mresponse)
               THEN (IF mrequest.htmx THEN "htmx" ELSE "page")
               ELSE IF mrequest.htmx /\ HasHxRedirect(mresponse) THEN "page"
               ELSE NoValue
  /\ mpos' = 0
  /\ mran' = "client"
  /\ UNCHANGED <<chain, mrequest, minner, mresponse, storage, pending, used,
                 queued>>

MsgStart ==
  /\ mpos = 0
  /\ mran = "client"
  /\ mrequest = [htmx |-> FALSE, follows |-> FALSE]
  /\ minner = NoResponse
  /\ mresponse = NoResponse
  /\ storage = <<>>
  /\ pending = <<>>
  /\ used = FALSE
  /\ queued = 0
  /\ shown = [m \in Messages |-> 0]
  /\ dropped = {}
  /\ follow = NoValue

MsgNext ==
  \/ MsgView /\ UNCHANGED <<verbVars, tplVars, m2mVars, delVars, viewVars, htmxVars>>
  \/ HtmxPartialTemplateMiddleware /\ UNCHANGED <<verbVars, tplVars, m2mVars, delVars, viewVars, htmxVars>>
  \/ HtmxVaryMiddleware /\ UNCHANGED <<verbVars, tplVars, m2mVars, delVars, viewVars, htmxVars>>
  \/ HtmxMessageMiddleware /\ UNCHANGED <<verbVars, tplVars, m2mVars, delVars, viewVars, htmxVars>>
  \/ MessageMiddleware /\ UNCHANGED <<verbVars, tplVars, m2mVars, delVars, viewVars, htmxVars>>
  \/ Deliver /\ UNCHANGED <<verbVars, tplVars, m2mVars, delVars, viewVars, htmxVars>>

Queued == 1..queued

\* The messages in the storage, as a set.
Stored == {storage[i] : i \in 1..Len(storage)}

\* C5: a message queued during a request that is answered by a redirect (3xx
\* or HX-Redirect) is not consumed by that response and is displayed by the
\* request that follows the redirect; over any sequence of requests every
\* queued message is displayed at most once, none is rendered where no client
\* displays it, and between requests a message is either still stored or has
\* been displayed exactly once; in both orders of the two middleware classes.
C5_MessagesOnce ==
  /\ \A m \in Messages : shown[m] <= 1
  /\ dropped = {}
  /\ (mpos = Len(chain) + 2 /\ ~Displayed(mrequest, mresponse))
       => mresponse.body = <<>> /\ storage = pending
  /\ mpos = 0 =>
       \A m \in Queued : IF m \in Stored THEN shown[m] = 0 ELSE shown[m] = 1
  /\ (mpos = 0 /\ mrequest.follows) =>
       \A m \in Queued : shown[m] = 1

\* With HtmxMessageMiddleware outermost of the two, a client has followed a
\* redirect and was shown both messages queued before, once each.
C5_Witness ==
  /\ chain[2] = "HtmxMessageMiddleware"
  /\ mpos = 0
  /\ mrequest.follows
  /\ queued >= 2
  /\ shown[1] = 1
  /\ shown[2] = 1
  /\ storage = <<>>

\* C6: HtmxPartialTemplateMiddleware.__call__ replaces the response by an
\* HttpResponseClientRedirect to the same URL exactly when the request is an
\* HTMX request and the status is 302; otherwise the inner response is
\* returned as it is.
C6_ClientRedirect ==
  mran = "HtmxPartialTemplateMiddleware" =>
    IF mrequest.htmx /\ minner.status = 302
    THEN /\ mresponse.status = 200
         /\ mresponse.hx_redirect = minner.url
         /\ mresponse # minner
    ELSE mresponse = minner

\* An HTMX request was answered by a 302 to /other/ and left the middleware
\* as a client-side redirect to /other/.
C6_Witness ==
  /\ mran = "HtmxPartialTemplateMiddleware"
  /\ mrequest.htmx
  /\ minner.status = 302
  /\ minner.url = "/other/"
  /\ mresponse.hx_redirect = "/other/"

\* C7: HtmxVaryMiddleware sets the Vary header to 'HX-Request' for an HTMX
\* request, and returns the inner response with its headers unchanged for a
\* non-HTMX request.
C7_Vary ==
  mran = "HtmxVaryMiddleware" =>
    IF mrequest.htmx
    THEN /\ mresponse.vary = "HX-Request"
         /\ [mresponse EXCEPT !.vary = minner.vary] = minner
    ELSE mresponse = minner

\* An HTMX request whose view set Vary: Cookie left the middleware with
\* Vary: HX-Request.
C7_Witness ==
  /\ mran = "HtmxVaryMiddleware"
  /\ mrequest.htmx
  /\ minner.vary = "Cookie"
  /\ mresponse.vary = "HX-Request"

(***************************************************************************)
(* ModelFormView.form_valid: saving the many-to-many data of a valid form. *)
(***************************************************************************)
\* self.object._meta.many_to_many of the model, in the order of the fields.
many_to_many == <<"tags", "groups">>

M2MFields == {many_to_many[i] : i \in 1..Len(many_to_many)}

\* The rows of the model, by primary key.
Objects == {1, 2}

\* The rows a many-to-many field relates to, by primary key.
RelatedPks == {1, 2}

\* cleaned_data: for each many-to-many field the submitted values.
FormData == [M2MFields -> SUBSET RelatedPks]

\* The verbs whose valid form ModelFormView saves.
SavingMethods == {"POST", "PUT", "PATCH"}

\* ManyToManyField.save_form_data as the class defines it: set(data).
DefaultSave == [op |-> "set", attname |-> NoValue]

\* lambda instance, data: getattr(instance, f.attname).add(*data), where f
\* is the loop's variable: when the lambda runs, after the loop, f is the
\* last field of many_to_many, for the lambda of every field.
PatchedSave == [op |-> "add", attname |-> many_to_many[Len(many_to_many)]]

\* The field objects after the loop of form_valid for the verb.
SaveFormDataAfter(verb, sfd) ==
  IF verb = "PATCH" THEN [f \in M2MFields |-> PatchedSave] ELSE sfd

\* add() raised TypeError: no relations.
RaisedTypeError == [f \in {"<TypeError>"} |-> {}]

\* f.save_form_data(instance, data) of field f on the relations rels of the
\* instance: the relations after it, or RaisedTypeError when add() is given
\* rows of another model than the field's.
SaveField(sfd, f, rels, data, same) ==
  IF sfd[f].op = "set" THEN [rels EXCEPT ![f] = data]
  ELSE IF sfd[f].attname # f /\ ~same /\ data # {} THEN RaisedTypeError
  ELSE [rels EXCEPT ![sfd[f].attname] = @ \cup data]

\* form.save(): _save_m2m calls each field's save_form_data in order.
RECURSIVE SaveM2M(_, _, _, _, _)
SaveM2M(sfd, i, rels, data, same) ==
  IF i > Len(many_to_many) THEN rels
  ELSE LET next == SaveField(sfd, many_to_many[i], rels, data[many_to_many[i]], same)
       IN IF next = RaisedTypeError THEN RaisedTypeError
          ELSE SaveM2M(sfd, i + 1, next, data, same)

\* A request with a valid form for an existing object reaches the view.
M2MRequest ==
  /\ fpc = "idle"
  /\ \E verb \in SavingMethods, obj \in Objects, data \in FormData :
       frequest' = [method |-> verb, object |-> obj, data |-> data]
  /\ fpc' = "valid"
  /\ fraised' = NoValue
  /\ UNCHANGED <<same_model, save_form_data, related>>

\* ModelFormView.form_valid, with ModelFormMixin.form_valid's form.save().
form_valid ==
  /\ fpc = "valid"
  /\ LET sfd == SaveFormDataAfter(frequest.method, save_form_data)
         saved == SaveM2M(sfd, 1, related[frequest.object], frequest.data,
                          same_model)
     IN /\ save_form_data' = sfd
        /\ IF saved = RaisedTypeError
           THEN fraised' = "TypeError" /\ UNCHANGED related
           ELSE /\ fraised' = NoValue
                /\ related' = [related EXCEPT ![frequest.object] = saved]
  /\ fpc' = "saved"
  /\ UNCHANGED <<frequest, same_model>>

NoFRequest ==
  [method |-> "POST", object |-> 1, data |-> [f \in M2MFields |-> {}]]

\* The response is sent; the field objects and the rows stay.
M2MDone ==
  /\ fpc = "saved"
  /\ fpc' = "idle"
  /\ frequest' = NoFRequest
  /\ fraised' = NoValue
  /\ UNCHANGED <<same_model, save_form_data, related>>

M2MStart ==
  /\ fpc = "idle"
  /\ frequest = NoFRequest
  /\ save_form_data = [f \in M2MFields |-> DefaultSave]
  /\ related = [o \in Objects |-> [f \in M2MFields |-> {}]]
  /\ fraised = NoValue

M2MNext ==
  \/ M2MRequest /\ UNCHANGED <<verbVars, tplVars, msgVars, delVars, viewVars, htmxVars>>
  \/ form_valid /\ UNCHANGED <<verbVars, tplVars, msgVars, delVars, viewVars, htmxVars>>
  \/ M2MDone /\ UNCHANGED <<verbVars, tplVars, msgVars, delVars, viewVars, htmxVars>>

\* C8: a valid PATCH adds the submitted many-to-many values to the object's
\* relations, each field's values to that field, and a valid PUT or POST
\* replaces the relations by the submitted values, for every request of any
\* sequence of requests.
C8_AsClaimed ==
  [][(fpc = "valid" /\ fpc' = "saved") =>
       \A f \in M2MFields :
         related'[frequest.object][f] =
           IF frequest.method = "PATCH"
           THEN related[frequest.object][f] \cup frequest.data[f]
           ELSE frequest.data[f]]_vars

(***************************************************************************)
(* ModelFormView.delete                                                    *)
(***************************************************************************)
\* A Python value by its type and its text: 1 and '1' differ in the type.
PyValue(type, text) == [type |-> type, text |-> text]

\* Python's a == b on such values: an int never equals a str.
PyEq(a, b) == a = b

\* The model's fields: f.name for f in self.object._meta.get_fields().
field_names == {"title", "tags", "author", "profile"}

\* The ManyToManyField among them.
ManyToManyFields == {"tags"}

\* The ForeignKey and the OneToOneField.
SingleRelations == {"author", "profile"}

\* The primary keys of the related rows, as text.
PkTexts == {"1", "2"}

\* The Python type of a primary key: int (AutoField) or str (CharField).
PkTypes == {"int", "str"}

\* The URL parameters of a DELETE request: for each key its list of values.
DeleteQueries ==
  [title : {<<>>, <<"x">>},
   tags : {<<>>, <<"1">>, <<"1", "2">>},
   author : {<<>>, <<"1">>, <<"">>},
   profile : {<<>>, <<"1">>},
   page : {<<>>, <<"2">>}]

\* set(request.QUERY): the keys that have values.
ParamNames(query) == {k \in DOMAIN query : query[k] # <<>>}

\* request.QUERY.getlist(name), as a set.
GetList(query, name) == {query[name][i] : i \in 1..Len(query[name])}

\* request.QUERY.get(name): the last value, a str.
GetParam(query, name) == query[name][Len(query[name])]

Rows ==
  [exists : BOOLEAN, tags : SUBSET PkTexts,
   author : PkTexts \cup {NoValue}, profile : PkTexts \cup {NoValue}]

\* One pass of the loop over related_names, on the row r (with the exception
\* raised so far): a many-to-many field loses the listed values; a field
\* that is no relation has a value with no pk attribute; a ForeignKey or
\* OneToOneField with a related row and a requested value is cleared and
\* saved when the row's pk == the requested str, and BadRequest is raised
\* when it is not.
DeleteField(name, query, r, type) ==
  IF r.raised # NoValue THEN r
  ELSE IF name \in ManyToManyFields
    THEN [r EXCEPT !.tags = @ \ GetList(query, name)]
  ELSE IF name \notin SingleRelations
    THEN IF GetParam(query, name) # "" THEN [r EXCEPT !.raised = "AttributeError"]
         ELSE r
  ELSE IF r[name] # NoValue /\ GetParam(query, name) # ""
    THEN IF PyEq(PyValue(type, r[name]), PyValue("str", GetParam(query, name)))
         THEN [r EXCEPT ![name] = NoValue]
         ELSE [r EXCEPT !.raised = "BadRequest"]
  ELSE r

\* The loop, over the names in the order the set yields them.
RECURSIVE DeleteLoop(_, _, _, _)
DeleteLoop(order, query, r, type) ==
  IF order = <<>> THEN r
  ELSE DeleteLoop(Tail(order), query, DeleteField(Head(order), query, r, type), type)

\* The orders a set's iteration can take.
Orders(S) ==
  {o \in [1..Cardinality(S) -> S] : \A i, j \in 1..Cardinality(S) : o[i] = o[j] => i = j}

\* A DELETE request for an existing row reaches the view.
DeleteRequest ==
  /\ dpc = "idle"
  /\ row.exists
  /\ \E htmx \in BOOLEAN, query \in DeleteQueries :
       drequest' = [htmx |-> htmx, QUERY |-> query]
  /\ dmethod' = "DELETE"
  /\ dpc' = "delete"
  /\ draised' = NoValue
  /\ dqueued' = FALSE
  /\ dresponse' = NoValue
  /\ UNCHANGED <<pk_type, success_message, row>>

\* ModelFormView.delete. What the loop did before an exception stays done.
delete ==
  /\ dpc = "delete"
  /\ LET related_names == field_names \cap ParamNames(drequest.QUERY)
     IN \E order \in Orders(related_names) :
          LET start == [exists |-> row.exists, tags |-> row.tags,
                        author |-> row.author, profile |-> row.profile,
                        raised |-> NoValue]
              r == DeleteLoop(order, drequest.QUERY, start, pk_type)
              ok == r.raised = NoValue
          IN /\ row' = [exists |-> IF ok /\ related_names = {} THEN FALSE
                                   ELSE r.exists,
                        tags |-> r.tags, author |-> r.author,
                        profile |-> r.profile]
             /\ draised' = r.raised
             /\ dqueued' = (ok /\ success_message)
             /\ dmethod' = IF ok /\ drequest.htmx THEN "GET" ELSE dmethod
             /\ dresponse' = IF ~ok THEN NoValue
                             ELSE IF drequest.htmx THEN "render_to_response"
                             ELSE "HttpResponseRedirect"
  /\ dpc' = "done"
  /\ UNCHANGED <<drequest, pk_type, success_message>>

NoDRequest ==
  [htmx |-> FALSE,
   QUERY |-> [title |-> <<>>, tags |-> <<>>, author |-> <<>>,
              profile |-> <<>>, page |-> <<>>]]

\* The response, or the error page, is sent.
DeleteDone ==
  /\ dpc = "done"
  /\ dpc' = "idle"
  /\ drequest' = NoDRequest
  /\ dmethod' = "DELETE"
  /\ draised' = NoValue
  /\ dqueued' = FALSE
  /\ dresponse' = NoValue
  /\ UNCHANGED <<pk_type, success_message, row>>

DelStart ==
  /\ dpc = "idle"
  /\ drequest = NoDRequest
  /\ dmethod = "DELETE"
  /\ draised = NoValue
  /\ dqueued = FALSE
  /\ dresponse = NoValue

DelNext ==
  \/ DeleteRequest /\ UNCHANGED <<verbVars, tplVars, msgVars, m2mVars, viewVars, htmxVars>>
  \/ delete /\ UNCHANGED <<verbVars, tplVars, msgVars, m2mVars, viewVars, htmxVars>>
  \/ DeleteDone /\ UNCHANGED <<verbVars, tplVars, msgVars, m2mVars, viewVars, htmxVars>>

\* C9: delete deletes the object when no URL parameter names a field of the
\* model; when one does, the object is not deleted and only the named
\* relations change: a many-to-many field loses the listed values, and a
\* ForeignKey or OneToOneField whose related row's primary key is the
\* requested value is set to null, while BadRequest is raised for a requested
\* value that is not that primary key. (The last part is stated for requests
\* that name one field, where no other parameter's error can come first.)
C9_AsClaimed ==
  [][(dpc = "delete" /\ dpc' = "done") =>
       LET query == drequest.QUERY
           names == field_names \cap ParamNames(query)
       IN /\ names = {} => ~row'.exists
          /\ names # {} =>
               /\ row'.exists
               /\ \A f \in (ManyToManyFields \cup SingleRelations) \ names :
                    row'[f] = row[f]
          /\ names = {"tags"} => row'.tags = row.tags \ GetList(query, "tags")
          /\ \A f \in SingleRelations :
               (names = {f} /\ row[f] # NoValue /\ GetParam(query, f) # "") =>
                 IF row[f] = GetParam(query, f)
                 THEN row'[f] = NoValue /\ draised' = NoValue
                 ELSE row'[f] = row[f] /\ draised' = "BadRequest"]_vars

\* C15: when delete raises BadRequest the row and its relations are as they
\* were before the request (no many-to-many removal and no cleared
\* ForeignKey or OneToOneField of another parameter stays), the object is not
\* deleted, and no success message is queued.
C15_AsClaimed ==
  [][(dpc = "delete" /\ dpc' = "done" /\ draised' = "BadRequest") =>
       /\ row' = row
       /\ ~dqueued']_vars

(***************************************************************************)
(* The views: HyperFormMixin, ProcessHyperFormView, HyperFormView,         *)
(* SingleObjectPermissionMixin, ModelFormView and HtmxChainedFormView, as  *)
(* the base classes of a project's view.                                   *)
(***************************************************************************)
\* The classes of the package a project's view derives from.
ViewClasses == {"HyperFormView", "HtmxChainedFormView", "ModelFormView"}

\* The methods the package asks a subclass to define.
RequiredOverrides == {"delete", "form_valid", "get_options", "has_permission"}

\* HyperFormMixin.http_method_names, and a GET-only view's.
http_method_names == {"get", "post", "put", "patch", "delete"}
GetOnly == {"get"}

\* A project's view: its base class, the methods it defines itself, its
\* http_method_names, and whether its `initial` has values.
Views ==
  {v \in [cls : ViewClasses, overrides : SUBSET RequiredOverrides,
          http_method_names : {http_method_names, GetOnly},
          initial : BOOLEAN] :
     /\ "get_options" \in v.overrides => v.cls = "HtmxChainedFormView"
     /\ "has_permission" \in v.overrides => v.cls = "ModelFormView"
     /\ "delete" \in v.overrides => v.cls # "ModelFormView"}

\* A request as the view sees it: request.method, request.htmx, whether
\* QUERY has values, whether BODY was set, whether the submitted data are
\* valid, whether HX-Target is the id of a field with choices, whether the
\* URL names an object, and what has_permission answers when it is defined.
ViewRequests ==
  [method : CrudMethods \cup {"OPTIONS"}, htmx : BOOLEAN, query : BOOLEAN,
   body : BOOLEAN, valid : BOOLEAN, target : BOOLEAN, object : BOOLEAN,
   permitted : BOOLEAN]

\* str.lower() on the methods.
Lower(verb) ==
  CASE verb = "GET" -> "get"
    [] verb = "POST" -> "post"
    [] verb = "PUT" -> "put"
    [] verb = "PATCH" -> "patch"
    [] verb = "DELETE" -> "delete"
    [] OTHER -> "options"

\* How far a request has come: the methods entered, the exception or the
\* response it ended with, and where the data of its form came from.
Outcome(calls, raised, response) ==
  [calls |-> calls, raised |-> raised, response |-> response, form |-> NoValue]

Enter(o, name) == [o EXCEPT !.calls = Append(@, name)]
Raise(o, exception) == [o EXCEPT !.raised = exception]
Return(o, response) == [o EXCEPT !.response = response]

Called(calls, name) == \E i \in 1..Len(calls) : calls[i] = name

\* SingleObjectPermissionMixin.has_permission: always raises.
has_permission(o) ==
  Raise(Enter(o, "SingleObjectPermissionMixin.has_permission"),
        "ImproperlyConfigured")

\* A slip: the answer of has_permission is not looked at.
setup_unchecked(v, req, o) ==
  LET entered == Enter(o, "SingleObjectPermissionMixin.setup")
  IN IF ~req.object THEN entered
     ELSE IF "has_permission" \notin v.overrides THEN has_permission(entered)
     ELSE Enter(entered, "subclass.has_permission")

\* SingleObjectPermissionMixin.setup, after View.setup: get_object() raises
\* AttributeError when the URL names no object (self.object = None), else
\* has_permission decides.
setup(v, req, o) ==
  LET entered == Enter(o, "SingleObjectPermissionMixin.setup")
  IN IF ~req.object THEN entered
     ELSE IF "has_permission" \notin v.overrides THEN has_permission(entered)
     ELSE IF ~req.permitted
       THEN Raise(Enter(entered, "subclass.has_permission"), "PermissionDenied")
     ELSE Enter(entered, "subclass.has_permission")

\* HtmxChainedFormView.get_options: always raises.
get_options(o) ==
  Raise(Enter(o, "HtmxChainedFormView.get_options"), "ImproperlyConfigured")

\* HyperFormMixin.get_form_kwargs: where the form's data come from ("none":
\* the form is unbound). Reading request.BODY raises AttributeError when
\* the middleware did not set it.
FormDataSource(v, req) ==
  IF v.http_method_names = GetOnly
  THEN IF req.query THEN "QUERY" ELSE IF v.initial THEN "initial" ELSE "none"
  ELSE IF req.method # "GET" THEN (IF req.body THEN "BODY" ELSE "AttributeError")
  ELSE "none"

\* self.get_form(): get_form_kwargs of the class (HtmxChainedFormView's
\* calls HyperFormMixin's first), then the form.
get_form_kwargs(v, req, o) ==
  LET entered == Enter(o, "HyperFormMixin.get_form_kwargs")
      data == FormDataSource(v, req)
      kwargs == [entered EXCEPT !.form = data]
  IN IF data = "AttributeError" THEN Raise(entered, "AttributeError")
     ELSE IF v.cls = "HtmxChainedFormView" /\ req.htmx
       THEN IF "get_options" \in v.overrides
            THEN Enter(kwargs, "subclass.get_options")
            ELSE get_options(kwargs)
     ELSE kwargs

\* A slip: the check of the verb comes after the call of the parent class.
HyperFormMixin_form_valid_late(req, o) ==
  LET entered == Enter(Enter(o, "HyperFormMixin.form_valid"), "FormMixin.form_valid")
  IN IF req.method = "GET" THEN Raise(entered, "ImproperlyConfigured")
     ELSE Return(entered, "HttpResponseRedirect")

\* HyperFormMixin.form_valid.
HyperFormMixin_form_valid(req, o) ==
  LET entered == Enter(o, "HyperFormMixin.form_valid")
  IN IF req.method = "GET" THEN Raise(entered, "ImproperlyConfigured")
     ELSE Return(Enter(entered, "FormMixin.form_valid"), "HttpResponseRedirect")

\* self.form_valid(form): the subclass's own, or, along the classes' method
\* resolution order, ModelFormView's and ModelFormMixin's (which saves the
\* form) and then HyperFormMixin's.
form_valid_of(v, req, o) ==
  IF "form_valid" \in v.overrides
  THEN Return(Enter(o, "subclass.form_valid"), "HttpResponse")
  ELSE IF v.cls = "ModelFormView"
    THEN HyperFormMixin_form_valid(
           req, Enter(Enter(o, "ModelFormView.form_valid"),
                      "ModelFormMixin.form_valid"))
  ELSE HyperFormMixin_form_valid(req, o)

\* self.form_invalid(form): FormMixin's, which renders the bound form (with
\* the TemplateResponseMixin of HyperFormView or of the project's view).
form_invalid_of(o) ==
  Return(Enter(o, "FormMixin.form_invalid"), "TemplateResponse")

\* ProcessHyperFormView.get.
ProcessHyperFormView_get(v, req, o) ==
  LET kw == get_form_kwargs(v, req, Enter(o, "ProcessHyperFormView.get"))
      bound == FormDataSource(v, req) # "none"
  IN IF kw.raised # NoValue THEN kw
     ELSE IF bound /\ req.valid THEN form_valid_of(v, req, kw)
     ELSE IF bound THEN form_invalid_of(kw)
     ELSE Return(kw, "TemplateResponse")

\* HtmxChainedFormView.get: the options of the targeted field, or a 204.
HtmxChainedFormView_get(v, req, o) ==
  LET entered == Enter(o, "HtmxChainedFormView.get")
  IN IF req.htmx /\ req.target
     THEN LET kw == get_form_kwargs(v, req, entered)
          IN IF kw.raised # NoValue THEN kw ELSE Return(kw, "HttpResponse")
     ELSE Return(entered, "204")

\* ProcessHyperFormView.process_form, which post, put and patch call.
process_form(v, req, o) ==
  LET kw == get_form_kwargs(v, req, Enter(o, "ProcessHyperFormView.process_form"))
  IN IF kw.raised # NoValue THEN kw
     ELSE IF req.valid THEN form_valid_of(v, req, kw)
     ELSE form_invalid_of(kw)

\* ProcessHyperFormView.delete: always raises.
ProcessHyperFormView_delete(o) ==
  Raise(Enter(o, "ProcessHyperFormView.delete"), "ImproperlyConfigured")

\* self.delete(request): the subclass's own, ModelFormView's (which reads
\* self.object), or ProcessHyperFormView's.
delete_of(v, req, o) ==
  IF "delete" \in v.overrides
  THEN Return(Enter(o, "subclass.delete"), "HttpResponse")
  ELSE IF v.cls = "ModelFormView"
    THEN IF req.object
         THEN Return(Enter(o, "ModelFormView.delete"),
                     IF req.htmx THEN "TemplateResponse" ELSE "HttpResponseRedirect")
         ELSE Raise(Enter(o, "ModelFormView.delete"), "AttributeError")
  ELSE ProcessHyperFormView_delete(o)

\* View.dispatch: the handler of the verb, or 405 for a verb that is not in
\* http_method_names.
dispatch_of(v, req, o) ==
  IF Lower(req.method) \notin v.http_method_names
  THEN Return(Enter(o, "View.http_method_not_allowed"), "405")
  ELSE IF req.method = "GET"
    THEN IF v.cls = "HtmxChainedFormView"
         THEN HtmxChainedFormView_get(v, req, o)
         ELSE ProcessHyperFormView_get(v, req, o)
  ELSE IF req.method = "DELETE" THEN delete_of(v, req, o)
  ELSE process_form(v, req, o)

NoView ==
  [cls |-> "HyperFormView", overrides |-> {},
   http_method_names |-> http_method_names, initial |-> FALSE]

NoViewRequest ==
  [method |-> "GET", htmx |-> FALSE, query |-> FALSE, body |-> TRUE,
   valid |-> FALSE, target |-> FALSE, object |-> FALSE, permitted |-> TRUE]

\* A request reaches a view of the project: as_view() makes the view object.
\* What a class does not read is the same for all its requests.
ViewRequest ==
  /\ wpc = "idle"
  /\ \E v \in Views, req \in ViewRequests :
       /\ v.cls # "ModelFormView" => req.object /\ req.permitted
       /\ v.cls # "HtmxChainedFormView" => ~req.target
       /\ req.method \in {"GET", "DELETE", "OPTIONS"} => req.body
       /\ wview' = v
       /\ wrequest' = req
  /\ wpc' = "setup"
  /\ wcalls' = <<>>
  /\ wraised' = NoValue
  /\ wresponse' = NoValue
  /\ wform' = NoValue

\* view.setup(request): SingleObjectPermissionMixin's in a ModelFormView.
ViewSetup ==
  /\ wpc = "setup"
  /\ LET o == IF wview.cls = "ModelFormView"
              THEN setup(wview, wrequest, Outcome(wcalls, NoValue, NoValue))
              ELSE Outcome(wcalls, NoValue, NoValue)
     IN /\ wcalls' = o.calls
        /\ wraised' = o.raised
        /\ wpc' = IF o.raised = NoValue THEN "dispatch" ELSE "done"
  /\ UNCHANGED <<wview, wrequest, wresponse, wform>>

\* view.dispatch(request): the handler runs to its response or exception.
ViewDispatch ==
  /\ wpc = "dispatch"
  /\ LET o == dispatch_of(wview, wrequest, Outcome(wcalls, NoValue, NoValue))
     IN /\ wcalls' = o.calls
        /\ wraised' = o.raised
        /\ wresponse' = o.response
        /\ wform' = o.form
  /\ wpc' = "done"
  /\ UNCHANGED <<wview, wrequest>>

\* The response, or the error page, is sent.
ViewDone ==
  /\ wpc = "done"
  /\ wpc' = "idle"
  /\ wview' = NoView
  /\ wrequest' = NoViewRequest
  /\ wcalls' = <<>>
  /\ wraised' = NoValue
  /\ wresponse' = NoValue
  /\ wform' = NoValue

ViewStart ==
  /\ wpc = "idle"
  /\ wview = NoView
  /\ wrequest = NoViewRequest
  /\ wcalls = <<>>
  /\ wraised = NoValue
  /\ wresponse = NoValue
  /\ wform = NoValue

ViewNext ==
  \/ ViewRequest /\ UNCHANGED <<verbVars, tplVars, msgVars, m2mVars, delVars, htmxVars>>
  \/ ViewSetup /\ UNCHANGED <<verbVars, tplVars, msgVars, m2mVars, delVars, htmxVars>>
  \/ ViewDispatch /\ UNCHANGED <<verbVars, tplVars, msgVars, m2mVars, delVars, htmxVars>>
  \/ ViewDone /\ UNCHANGED <<verbVars, tplVars, msgVars, m2mVars, delVars, htmxVars>>

\* C10: a required override that the subclass omits fails with
\* ImproperlyConfigured and returns nothing: ProcessHyperFormView.delete,
\* SingleObjectPermissionMixin.has_permission and
\* HtmxChainedFormView.get_options always raise it, and
\* HyperFormMixin.form_valid raises it whenever request.method is 'GET',
\* before FormMixin.form_valid is called.
C10_RequiredOverrides ==
  /\ \A name \in {"ProcessHyperFormView.delete",
                  "SingleObjectPermissionMixin.has_permission",
                  "HtmxChainedFormView.get_options"} :
       Called(wcalls, name) =>
         /\ wraised = "ImproperlyConfigured"
         /\ wresponse = NoValue
         /\ wcalls[Len(wcalls)] = name
  /\ (Called(wcalls, "HyperFormMixin.form_valid") /\ wrequest.method = "GET") =>
       /\ wraised = "ImproperlyConfigured"
       /\ wresponse = NoValue
       /\ ~Called(wcalls, "FormMixin.form_valid")

\* A GET-only view that defines no form_valid got a valid form in the URL:
\* HyperFormMixin.form_valid ran and the request ended with
\* ImproperlyConfigured.
C10_Witness ==
  /\ wpc = "done"
  /\ wview.http_method_names = {"get"}
  /\ wrequest.method = "GET"
  /\ wrequest.query
  /\ wcalls[Len(wcalls)] = "HyperFormMixin.form_valid"
  /\ wraised = "ImproperlyConfigured"

\* self.form_valid(form), of the subclass or of the package, was called.
FormValidCalled ==
  Called(wcalls, "subclass.form_valid") \/ Called(wcalls, "HyperFormMixin.form_valid")

\* self.form_invalid(form) was called.
FormInvalidCalled == Called(wcalls, "FormMixin.form_invalid")

\* C13: get_form_kwargs binds the form by verb: in a GET-only view to
\* request.QUERY when it has values, else to the initial values when there
\* are any, else not at all; in any other view to request.BODY for a
\* non-GET request and not at all for a GET. So ProcessHyperFormView.get on
\* a multi-verb view renders the unbound form and calls neither form_valid
\* nor form_invalid, and post, put and patch call exactly one of the two.
\* (HtmxChainedFormView has its own get, and its get_form_kwargs can end in
\* get_options: the handlers are those of the other classes.)
C13_AsClaimed ==
  wpc = "done" =>
    /\ Called(wcalls, "HyperFormMixin.get_form_kwargs") =>
         wform = IF wview.http_method_names = {"get"}
                 THEN IF wrequest.query THEN "QUERY"
                      ELSE IF wview.initial THEN "initial" ELSE "none"
                 ELSE IF wrequest.method # "GET" THEN "BODY" ELSE "none"
    /\ (Called(wcalls, "ProcessHyperFormView.get")
          /\ wview.http_method_names # {"get"}) =>
         /\ wform = "none"
         /\ wresponse = "TemplateResponse"
         /\ ~FormValidCalled
         /\ ~FormInvalidCalled
    /\ (Called(wcalls, "ProcessHyperFormView.process_form")
          /\ wview.cls # "HtmxChainedFormView") =>
         FormValidCalled # FormInvalidCalled

\* C11: in a view with SingleObjectPermissionMixin, when get_object() returns
\* an object and has_permission answers false, setup raises PermissionDenied
\* before any handler runs: nothing but setup and has_permission is ever
\* entered for the request (no form is saved, no relation changed, nothing
\* deleted) and there is no response; when get_object() raises
\* AttributeError, has_permission is not called.
C11_PermissionDenied ==
  wview.cls = "ModelFormView" /\ wpc \in {"dispatch", "done"} =>
    /\ (wrequest.object /\ "has_permission" \in wview.overrides
          /\ ~wrequest.permitted) =>
         /\ wpc = "done"
         /\ wraised = "PermissionDenied"
         /\ wresponse = NoValue
         /\ wcalls = <<"SingleObjectPermissionMixin.setup",
                       "subclass.has_permission">>
    /\ ~wrequest.object =>
         /\ ~Called(wcalls, "subclass.has_permission")
         /\ ~Called(wcalls, "SingleObjectPermissionMixin.has_permission")

\* A DELETE of an existing object that has_permission rejected has ended
\* with PermissionDenied.
C11_Witness ==
  /\ wpc = "done"
  /\ wview.cls = "ModelFormView"
  /\ "has_permission" \in wview.overrides
  /\ wrequest.method = "DELETE"
  /\ wrequest.object
  /\ ~wrequest.permitted
  /\ wraised = "PermissionDenied"

(***************************************************************************)
(* HtmxFormMixin in front of the form mixins of a view, and                *)
(* HtmxPartialTemplateMiddleware.process_template_response after it.       *)
(***************************************************************************)
\* The HX-Trigger values a client sends (request.htmx.trigger): the id of
\* the element that made the request, None when it has none.
TriggerVals == {NoneS, <<"signup">>, <<"form">>}

\* The request as the handler sees it.
HtmxRequests ==
  [method : {"GET", "POST"}, htmx : BOOLEAN, trigger : TriggerVals,
   target : TargetVals, valid : BOOLEAN]

\* The view: get_template_names(), and the HX-Partial-Name its
\* render_to_response puts on the response.
HtmxViews == [template_name : TemplateLists, partial_name : PartialNameVals]

\* A response: its class, the headers the mixin and the middleware read or
\* write, and a TemplateResponse's template_name.
FormResponse(kind, retarget, reswap, partial_name, template_name) ==
  [kind |-> kind, retarget |-> retarget, reswap |-> reswap,
   partial_name |-> partial_name, template_name |-> template_name]

NoFormResponse == FormResponse(NoValue, NoneS, NoValue, NoneS, <<>>)

\* self.render_to_response(context) of the view.
render_to_response(view) ==
  FormResponse("TemplateResponse", NoneS, NoValue, view.partial_name,
               view.template_name)

\* What a handler came to: the exception it raised, or its response.
Handled(raised, response) == [raised |-> raised, response |-> response]

\* super().form_valid(form): HyperFormMixin's, which redirects, or raises on a
\* GET.
super_form_valid(req) ==
  LET o == HyperFormMixin_form_valid(req, Outcome(<<>>, NoValue, NoValue))
  IN IF o.raised # NoValue THEN Handled(o.raised, NoFormResponse)
     ELSE Handled(NoValue, FormResponse(o.response, NoneS, NoValue, NoneS, <<>>))

\* super().form_invalid(form): FormMixin's, which renders the bound form.
super_form_invalid(view) == Handled(NoValue, render_to_response(view))

\* HtmxFormMixin.form_valid.
HtmxFormMixin_form_valid(view, req) ==
  LET response == super_form_valid(req)
  IN IF response.raised # NoValue THEN response
     ELSE IF req.htmx THEN Handled(NoValue, render_to_response(view))
     ELSE response

\* A slip: the error is retargeted to HX-Target instead of HX-Trigger.
HtmxFormMixin_form_invalid_target(view, req) ==
  LET response == super_form_invalid(view)
  IN IF req.htmx
     THEN IF req.trigger = NoneS
          THEN Handled("ImproperlyConfigured", NoFormResponse)
          ELSE Handled(NoValue,
                 [response.response EXCEPT !.retarget = <<Hash>> \o req.target,
                                           !.reswap = "outerHTML"])
     ELSE response

\* HtmxFormMixin.form_invalid.
HtmxFormMixin_form_invalid(view, req) ==
  LET response == super_form_invalid(view)
  IN IF req.htmx
     THEN IF req.trigger = NoneS
          THEN Handled("ImproperlyConfigured", NoFormResponse)
          ELSE Handled(NoValue,
                 [response.response EXCEPT !.retarget = <<Hash>> \o req.trigger,
                                           !.reswap = "outerHTML"])
     ELSE response

NoHtmxRequest ==
  [method |-> "GET", htmx |-> FALSE, trigger |-> NoneS, target |-> NoneS,
   valid |-> FALSE]

NoHtmxView == [template_name |-> <<>>, partial_name |-> NoneS]

\* A form was submitted to a view and validated. django_htmx reads the
\* HX-Trigger and HX-Target headers whether or not HX-Request is there.
HtmxSubmit ==
  /\ hpc = "idle"
  /\ hrequest' \in HtmxRequests
  /\ hview' \in HtmxViews
  /\ hpc' = "form"
  /\ UNCHANGED <<hparent, hresponse, hraised>>

\* self.form_valid(form) or self.form_invalid(form) of a view whose first
\* base class is HtmxFormMixin.
HtmxHandle ==
  /\ hpc = "form"
  /\ LET parent == IF hrequest.valid THEN super_form_valid(hrequest)
                   ELSE super_form_invalid(hview)
         o == IF hrequest.valid THEN HtmxFormMixin_form_valid(hview, hrequest)
              ELSE HtmxFormMixin_form_invalid(hview, hrequest)
     IN /\ hparent' = parent.response
        /\ hresponse' = o.response
        /\ hraised' = o.raised
  /\ hpc' = "handled"
  /\ UNCHANGED <<hrequest, hview>>

\* The middleware's process_template_response, which the handler calls for a
\* response that can be rendered.
HtmxProcess ==
  /\ hpc = "handled"
  /\ hresponse' =
       IF hraised = NoValue /\ hresponse.kind = "TemplateResponse" /\ hrequest.htmx
       THEN [hresponse EXCEPT !.template_name =
              [i \in 1..Len(hresponse.template_name) |->
                WithPartial(hresponse.template_name[i],
                            PartialName(hrequest, hresponse))]]
       ELSE hresponse
  /\ hpc' = "processed"
  /\ UNCHANGED <<hrequest, hview, hparent, hraised>>

\* The response, or the error page, is sent.
HtmxDone ==
  /\ hpc = "processed"
  /\ hpc' = "idle"
  /\ hrequest' = NoHtmxRequest
  /\ hview' = NoHtmxView
  /\ hparent' = NoFormResponse
  /\ hresponse' = NoFormResponse
  /\ hraised' = NoValue

HtmxStart ==
  /\ hpc = "idle"
  /\ hrequest = NoHtmxRequest
  /\ hview = NoHtmxView
  /\ hparent = NoFormResponse
  /\ hresponse = NoFormResponse
  /\ hraised = NoValue

HtmxNext ==
  \/ HtmxSubmit /\ UNCHANGED <<verbVars, tplVars, msgVars, m2mVars, delVars, viewVars>>
  \/ HtmxHandle /\ UNCHANGED <<verbVars, tplVars, msgVars, m2mVars, delVars, viewVars>>
  \/ HtmxProcess /\ UNCHANGED <<verbVars, tplVars, msgVars, m2mVars, delVars, viewVars>>
  \/ HtmxDone /\ UNCHANGED <<verbVars, tplVars, msgVars, m2mVars, delVars, viewVars>>

\* What HtmxFormMixin itself does, on which the claim and the code agree: on
\* an HTMX request form_invalid sets HX-Retarget to '#' and the trigger's id
\* and HX-Reswap to 'outerHTML', and raises ImproperlyConfigured without a
\* trigger id; on a non-HTMX request both handlers return the parent's
\* response unchanged; on an HTMX request form_valid returns the rendered
\* template response in place of the parent's redirect.
HtmxFormMixinHandlers ==
  hpc \in {"handled", "processed"} =>
    /\ (hrequest.htmx /\ ~hrequest.valid /\ hrequest.trigger # NoneS) =>
         /\ hraised = NoValue
         /\ hresponse.kind = "TemplateResponse"
         /\ hresponse.retarget = <<"#">> \o hrequest.trigger
         /\ hresponse.reswap = "outerHTML"
    /\ (hrequest.htmx /\ ~hrequest.valid /\ hrequest.trigger = NoneS) =>
         hraised = "ImproperlyConfigured"
    /\ (~hrequest.htmx /\ hrequest.valid /\ hrequest.method # "GET") =>
         /\ hraised = NoValue
         /\ hresponse = hparent
         /\ hresponse.kind = "HttpResponseRedirect"
    /\ (~hrequest.htmx /\ ~hrequest.valid) =>
         /\ hraised = NoValue
         /\ hresponse = hparent
    /\ (hrequest.htmx /\ hrequest.valid /\ hrequest.method # "GET") =>
         /\ hraised = NoValue
         /\ hparent.kind = "HttpResponseRedirect"
         /\ hresponse.kind = "TemplateResponse"
         /\ hresponse.retarget = NoneS

\* C12 as the claim states it: besides the above, the partial rendered for an
\* invalid HTMX submission is the block named after the trigger's id,
\* whatever the HX-Target: every template name of the response ends in '#'
\* and that id.
C12_AsClaimed ==
  /\ HtmxFormMixinHandlers
  /\ (hpc = "processed" /\ hrequest.htmx /\ ~hrequest.valid
        /\ hrequest.trigger # NoneS) =>
       /\ Len(hresponse.template_name) = Len(hparent.template_name)
       /\ \A i \in 1..Len(hparent.template_name) :
            /\ Len(hresponse.template_name[i]) > Len(hrequest.trigger)
            /\ SubSeq(hresponse.template_name[i],
                      Len(hresponse.template_name[i]) - Len(hrequest.trigger),
                      Len(hresponse.template_name[i]))
                 = <<"#">> \o hrequest.trigger

\* C12, amended: the same, with the partial named after the trigger's id for
\* every template name that does not contain '#' already; a template name
\* that contains '#' stays as it is, whatever the trigger's id.
C12_HtmxFormMixin ==
  /\ HtmxFormMixinHandlers
  /\ (hpc = "processed" /\ hrequest.htmx /\ ~hrequest.valid
        /\ hrequest.trigger # NoneS) =>
       /\ Len(hresponse.template_name) = Len(hparent.template_name)
       /\ \A i \in 1..Len(hparent.template_name) :
            IF HasHash(hparent.template_name[i])
            THEN hresponse.template_name[i] = hparent.template_name[i]
            ELSE hresponse.template_name[i]
                   = hparent.template_name[i] \o <<"#">> \o hrequest.trigger

\* An invalid HTMX submission from the form 'signup' with HX-Target 'form',
\* to a view that sets an HX-Partial-Name: the response is retargeted to
\* '#signup' and the template is page.html#signup.
C12_Witness ==
  /\ hpc = "processed"
  /\ hrequest.htmx
  /\ ~hrequest.valid
  /\ hrequest.trigger = <<"signup">>
  /\ hrequest.target = <<"form">>
  /\ hview.partial_name = <<"aside">>
  /\ hparent.template_name = <<(<<"page.html">>)>>
  /\ hresponse.retarget = <<"#", "signup">>
  /\ hresponse.reswap = "outerHTML"
  /\ hresponse.template_name = <<(<<"page.html", "#", "signup">>)>>

(***************************************************************************)
(* The specifications.                                                     *)
(***************************************************************************)
\* The choices a project makes once, for the parts a specification leaves
\* parked: the order of the middleware classes, the models' fields and keys,
\* the view's success_message, and the row the view works on.
Parked ==
  [chain |-> <<"HtmxMessageMiddleware", "HtmxPartialTemplateMiddleware",
               "HtmxVaryMiddleware">>,
   same_model |-> TRUE, pk_type |-> "int", success_message |-> FALSE,
   row |-> [exists |-> TRUE, tags |-> {}, author |-> NoValue,
            profile |-> NoValue]]

\* Every part at rest.
Start ==
  /\ VerbStart /\ TplStart /\ MsgStart /\ M2MStart /\ DelStart /\ ViewStart
  /\ HtmxStart

InitFixed ==
  /\ Start
  /\ chain = Parked.chain
  /\ same_model = Parked.same_model
  /\ pk_type = Parked.pk_type
  /\ success_message = Parked.success_message
  /\ row = Parked.row

InitMsg ==
  /\ Start
  /\ chain \in Chains
  /\ same_model = Parked.same_model
  /\ pk_type = Parked.pk_type
  /\ success_message = Parked.success_message
  /\ row = Parked.row

InitM2M ==
  /\ Start
  /\ chain = Parked.chain
  /\ same_model \in BOOLEAN
  /\ pk_type = Parked.pk_type
  /\ success_message = Parked.success_message
  /\ row = Parked.row

InitDel ==
  /\ Start
  /\ chain = Parked.chain
  /\ same_model = Parked.same_model
  /\ pk_type \in PkTypes
  /\ success_message \in BOOLEAN
  /\ row \in {r \in Rows : r.exists}

SpecVerb == InitFixed /\ [][VerbNext]_vars
SpecTpl == InitFixed /\ [][TplNext]_vars
SpecMsg == InitMsg /\ [][MsgNext]_vars
SpecM2M == InitM2M /\ [][M2MNext]_vars
SpecDel == InitDel /\ [][DelNext]_vars
SpecView == InitFixed /\ [][ViewNext]_vars
SpecHtmx == InitFixed /\ [][HtmxNext]_vars

====
